---- MODULE Spec2Model ----
(***************************************************************************)
(* Brace-Tracker: the metrics core (normalize_records,                     *)
(* compute_device_usage, _summarize_device) and the CLI entry point main,  *)
(* which drives it and prints the text or JSON report.                     *)
(*                                                                         *)
(* A timezone-aware datetime is [utc |-> minutes since 0001-01-01T00:00Z,  *)
(* off |-> utcoffset in minutes].  Python compares, hashes and sorts aware *)
(* datetimes by their UTC instant, and takes replace(...) and date() on    *)
(* the local wall clock (utc + off).  A date is its proleptic ordinal      *)
(* (date.min is ordinal 1).  Seconds and microseconds are not modelled: a  *)
(* timestamp is a whole minute.  Temperatures and thresholds are integers; *)
(* an average is the exact fraction [num, den] of the float division.      *)
(***************************************************************************)
EXTENDS Integers, Sequences, FiniteSets, TLC

VARIABLES
  csv_rows,        \* rows of the CSV logs in the data directory, in load order
  pc,              \* position of the running procedure
  args,            \* parsed command line (cli.py main)
  raw_records,     \* cli.py main: raw_records
  config,          \* cli.py main: config
  hourly_records,  \* cli.py main: hourly_records
  window_days,     \* cli.py main: window_days
  usages,          \* outcome of compute_device_usage
  renormalized,    \* outcome of normalize_records applied to hourly records
  exit_code,       \* process exit status
  logged,          \* what the data directory holds: the last whole day and the stray readings
  stdout           \* what main has printed to standard output

vars == <<csv_rows, pc, args, raw_records, config, hourly_records,
          window_days, usages, renormalized, exit_code, logged, stdout>>

----------------------------------------------------------------------------
(* Bounds of the model. *)

\* stray single readings in the data directory
MaxSingles == 1

\* rows fed to the normalizer on its own
MaxRows == 3

\* hourly records added to the input of the core on its own
MaxAdded == 3

----------------------------------------------------------------------------
(* Calendar and datetime arithmetic (Python datetime). *)

MinutesPerHour == 60

HoursPerDay == 24

MinutesPerDay == HoursPerDay * MinutesPerHour

\* date.min.toordinal(): date arithmetic below it raises OverflowError
DateMinOrdinal == 1

\* the aware datetime whose local wall clock reads day (ordinal), hour, minute
At(day, hour, minute, off) ==
  [utc |-> ((day - 1) * HoursPerDay + hour) * MinutesPerHour + minute - off,
   off |-> off]

LocalMinutes(ts) == ts.utc + ts.off

\* datetime.date(): the calendar day of the local wall clock
DateOf(ts) == (LocalMinutes(ts) \div MinutesPerDay) + 1

FloorWrongZone(ts) ==
  [utc |-> LocalMinutes(ts) - (LocalMinutes(ts) % MinutesPerHour), off |-> ts.off]

\* datetime.replace(minute=0, second=0, microsecond=0): the wall clock is
\* floored to the hour, the offset is kept
FloorToHour(ts) ==
  [utc |-> ts.utc - (LocalMinutes(ts) % MinutesPerHour), off |-> ts.off]

\* list(...) and tuple(...): the elements, evaluated once and stored
Materialized(f) == f \o <<>>

\* str ordering of the device identifiers in use
DeviceRank(d) ==
  CASE d = "alpha" -> 1
    [] d = "beta"  -> 2
    [] d = "gamma" -> 3

\* the sort key of x: "device_hour" is the tuple (r.device_id, r.hour) of a
\* record, "hour" is r.hour of a record, "datetime" is the datetime itself,
\* "str" is a device identifier; aware datetimes order by their instants
SortKey(key, x) ==
  CASE key = "device_hour" -> <<DeviceRank(x.device_id), x.hour.utc>>
    [] key = "hour" -> <<0, x.hour.utc>>
    [] key = "datetime" -> <<0, x.utc>>
    [] key = "str" -> <<DeviceRank(x), 0>>

\* tuple ordering of two sort keys
KeyLess(a, b) == a[1] < b[1] \/ (a[1] = b[1] /\ a[2] < b[2])

\* sorted(...) and list.sort(...): the key of each element is taken once and
\* the order is stable and ascending; x comes after every element whose key
\* is less and after every earlier element whose key is not greater
SortedBy(seq, key) ==
  LET n == Len(seq)
      keys == Materialized([i \in 1..n |-> SortKey(key, seq[i])])
      before == Materialized(
                  [i \in 1..n |->
                     Cardinality({j \in 1..n :
                                    \/ KeyLess(keys[j], keys[i])
                                    \/ j < i /\ ~KeyLess(keys[i], keys[j])})])
  IN Materialized([p \in 1..n |-> seq[CHOOSE i \in 1..n : before[i] = p - 1]])

----------------------------------------------------------------------------
(* metrics.py: records. *)

RawRecord(device_id, timestamp, temperature) ==
  [device_id |-> device_id, timestamp |-> timestamp, temperature |-> temperature]

HourlyRecord(device_id, hour, temperature) ==
  [device_id |-> device_id, hour |-> hour, temperature |-> temperature]

\* a call's outcome: the value returned, or the exception that escaped
Returned(v) == [raised |-> "None", value |-> v]

Raised(e) == [raised |-> e, value |-> <<>>]

----------------------------------------------------------------------------
(* metrics.py: normalize_records. *)

ReplacesAlways(record, existing) == TRUE

ReplacesOnTie(record, existing) == record.temperature >= existing.temperature

\* record.temperature > existing.temperature
Replaces(record, existing) == record.temperature > existing.temperature

\* the loop restricted to the records of one key, which alone decide
\* collapsed[key]: the stored record after the records at group[i..], existing
\* being stored
RECURSIVE CollapseGroup(_, _, _, _, _)
CollapseGroup(records, floored, group, i, existing) ==
  IF i > Len(group) THEN existing
  ELSE CollapseGroup(records, floored, group, i + 1,
                     IF Replaces(records[group[i]], existing)
                     THEN HourlyRecord(records[group[i]].device_id,
                                       floored[group[i]],
                                       records[group[i]].temperature)
                     ELSE existing)

\* collapsed[key] after the loop, key being (device_id, floored) of
\* records[first], the first record of its key (existing is None there, so
\* it is stored); aware datetimes are equal keys when their instants are
CollapsedValue(records, floored, first) ==
  LET Mine(j) == /\ records[j].device_id = records[first].device_id
                 /\ floored[j].utc = floored[first].utc
      group == SelectSeq(Materialized([j \in 1..Len(records) |-> j]), Mine)
  IN CollapseGroup(records, floored, group, 2,
                   HourlyRecord(records[first].device_id, floored[first],
                                records[first].temperature))

\* collapsed.values(): a dict keeps its keys in the order of their first
\* insertion.  Reading record.timestamp of an object without that attribute
\* raises AttributeError
Collapse(records) ==
  IF \E i \in 1..Len(records) : "timestamp" \notin DOMAIN records[i]
  THEN Raised("AttributeError")
  ELSE
    LET floored == Materialized([i \in 1..Len(records) |->
                                   FloorToHour(records[i].timestamp)])
        IsFirst(i) ==
          \A j \in 1..(i - 1) :
            ~(records[j].device_id = records[i].device_id
              /\ floored[j].utc = floored[i].utc)
        firsts == SelectSeq(Materialized([i \in 1..Len(records) |-> i]), IsFirst)
    IN Returned(Materialized([k \in 1..Len(firsts) |->
                                CollapsedValue(records, floored, firsts[k])]))

normalize_records(records) ==
  LET collapsed == Collapse(records)
  IN IF collapsed.raised # "None" THEN collapsed
     ELSE Returned(SortedBy(collapsed.value, "device_hour"))

----------------------------------------------------------------------------
(* metrics.py: compute_device_usage and _summarize_device. *)

\* samples a day needs to count as complete
CompleteSamples == 24

\* days of the recent window
RecentDays == 7

DailyUsage(day, hours_in_use, below_hours, sample_count, meets) ==
  [day |-> day, hours_in_use |-> hours_in_use,
   below_threshold_hours |-> below_hours,
   samples_present |-> sample_count, is_complete |-> meets]

InUseAtOrAbove(record, temperature_threshold) ==
  record.temperature >= temperature_threshold

\* record.temperature > temperature_threshold
InUse(record, temperature_threshold) ==
  record.temperature > temperature_threshold

HoursInUseAnyDay(records, temperature_threshold, day) ==
  Cardinality({i \in 1..Len(records) : InUse(records[i], temperature_threshold)})

\* hours_in_use_by_day.get(day, 0) after the loop over records
HoursInUseByDay(records, temperature_threshold, day) ==
  Cardinality({i \in 1..Len(records) :
                 /\ DateOf(records[i].hour) = day
                 /\ InUse(records[i], temperature_threshold)})

\* below_threshold_by_day.get(day, ()) after the loop over records
BelowThresholdByDay(records, temperature_threshold, day) ==
  LET Below(r) == DateOf(r.hour) = day /\ ~InUse(r, temperature_threshold)
      kept == SelectSeq(records, Below)
  IN Materialized([i \in 1..Len(kept) |-> kept[i].hour])

SampleCountInUseOnly(hours_in_use, below_hours) == hours_in_use

\* sample_count = hours_in_use + len(below_hours)
SampleCount(hours_in_use, below_hours) == hours_in_use + Len(below_hours)

\* meets_sample_requirement = sample_count == 24
MeetsSampleRequirement(sample_count) == sample_count = CompleteSamples

\* the body of the loop over range(window_days) for one target_day
WindowEntry(records, temperature_threshold, target_day) ==
  LET hours_in_use == HoursInUseByDay(records, temperature_threshold, target_day)
      below_hours ==
        SortedBy(BelowThresholdByDay(records, temperature_threshold, target_day),
                 "datetime")
      sample_count == SampleCount(hours_in_use, below_hours)
  IN DailyUsage(target_day, hours_in_use, below_hours, sample_count,
                MeetsSampleRequirement(sample_count))

TargetDayFromAnchorForward(anchor_day, wdays, offset) == anchor_day + offset

\* anchor_day - timedelta(days=window_days - 1 - offset)
TargetDay(anchor_day, wdays, offset) == anchor_day - (wdays - 1 - offset)

\* the loop over range(window_days): the window, or the OverflowError of a
\* target_day before date.min
BuildWindow(records, temperature_threshold, anchor_day, wdays) ==
  IF \E offset \in 0..(wdays - 1) :
       TargetDay(anchor_day, wdays, offset) < DateMinOrdinal
  THEN Raised("OverflowError")
  ELSE Returned(Materialized(
                  [o \in 1..wdays |->
                     WindowEntry(records, temperature_threshold,
                                 TargetDay(anchor_day, wdays, o - 1))]))

RECURSIVE SumHoursAllDays(_, _)
SumHoursAllDays(days, i) ==
  IF i > Len(days) THEN 0 ELSE days[i].hours_in_use + SumHoursAllDays(days, i + 1)

RECURSIVE SumHours(_, _)

\* sum(day.hours_in_use for day in days if day.is_complete), from index i
SumHours(days, i) ==
  IF i > Len(days) THEN 0
  ELSE (IF days[i].is_complete THEN days[i].hours_in_use ELSE 0)
       + SumHours(days, i + 1)

\* sum(1 for day in days if day.is_complete)
CountComplete(days) ==
  Cardinality({i \in 1..Len(days) : days[i].is_complete})

\* total / count if count else 0.0, as an exact fraction
Average(total, count) ==
  IF count # 0 THEN [num |-> total, den |-> count] ELSE [num |-> 0, den |-> 1]

\* average >= threshold
AtLeast(average, threshold) == average.num >= threshold * average.den

Min(a, b) == IF a <= b THEN a ELSE b

RecentWindowWhole(window) == window

\* window[-recent_window_size:] if window else []
RecentWindow(window) ==
  LET recent_window_size == Min(RecentDays, Len(window))
  IN IF window # <<>>
     THEN SubSeq(window, Len(window) - recent_window_size + 1, Len(window))
     ELSE <<>>

DeviceUsage(device_id, seven_day_average, overall_average, days, threshold_met, complete_days_recent, complete_days_overall) ==
  [device_id |-> device_id,
   seven_day_average_hours_per_day |-> seven_day_average,
   overall_average_hours_per_day |-> overall_average,
   days |-> days,
   threshold_met |-> threshold_met,
   complete_days_last_seven |-> complete_days_recent,
   complete_days_overall |-> complete_days_overall]

\* complete_days_recent > 0 and seven_day_average >= usage_threshold
ThresholdMet(complete_days_recent, seven_day_average, usage_threshold) ==
  complete_days_recent > 0 /\ AtLeast(seven_day_average, usage_threshold)

\* records is sorted by hour; the outcome is the DeviceUsage or the exception
_summarize_device(device_id, records, usage_threshold, temperature_threshold, wdays) ==
  IF records = <<>>
  THEN Returned(DeviceUsage(device_id, Average(0, 0), Average(0, 0), <<>>,
                            FALSE, 0, 0))
  ELSE
    LET anchor_day == DateOf(records[Len(records)].hour)
        built == BuildWindow(records, temperature_threshold, anchor_day, wdays)
        window == built.value
        complete_days_overall == CountComplete(window)
        overall_average == Average(SumHours(window, 1), complete_days_overall)
        recent_days == RecentWindow(window)
        complete_days_recent == CountComplete(recent_days)
        seven_day_average == Average(SumHours(recent_days, 1), complete_days_recent)
    IN IF built.raised # "None" THEN built
       ELSE Returned(DeviceUsage(device_id, seven_day_average, overall_average,
                                 window,
                                 ThresholdMet(complete_days_recent,
                                              seven_day_average, usage_threshold),
                                 complete_days_recent, complete_days_overall))

\* the keys of per_device in insertion order
PerDeviceKeys(records) ==
  LET IsFirst(i) ==
        \A j \in 1..(i - 1) : records[j].device_id # records[i].device_id
      firsts == SelectSeq(Materialized([i \in 1..Len(records) |-> i]), IsFirst)
  IN Materialized([k \in 1..Len(firsts) |-> records[firsts[k]].device_id])

\* per_device[device_id]: the records of the device in input order
PerDevice(records, device_id) ==
  LET Mine(r) == r.device_id = device_id
  IN SelectSeq(records, Mine)

\* the loop over sorted(per_device.items()): the summaries so far, or the
\* exception that ended it
RECURSIVE SummarizeFrom(_, _, _, _, _, _, _)
SummarizeFrom(records, keys, i, summaries, usage_threshold, temperature_threshold, wdays) ==
  IF i > Len(keys) THEN Returned(summaries)
  ELSE LET device_records == SortedBy(PerDevice(records, keys[i]), "hour")
           one == _summarize_device(keys[i], device_records, usage_threshold,
                                   temperature_threshold, wdays)
       IN IF one.raised # "None" THEN one
          ELSE SummarizeFrom(records, keys, i + 1, Append(summaries, one.value),
                             usage_threshold, temperature_threshold, wdays)

compute_device_usage(records, usage_threshold, temperature_threshold, wdays) ==
  SummarizeFrom(records, SortedBy(PerDeviceKeys(records), "str"), 1, <<>>,
                usage_threshold, temperature_threshold, wdays)

----------------------------------------------------------------------------
(* config.py: AnalysisConfig and load_config. *)

AnalysisConfig(usage_threshold, temperature_threshold, wdays) ==
  [usage_threshold_hours_per_day |-> usage_threshold,
   temperature_threshold_fahrenheit |-> temperature_threshold,
   window_days |-> wdays]

DefaultUsageThreshold == 16

DefaultTemperatureThreshold == 90

DefaultWindowDays == 7

DEFAULTS ==
  AnalysisConfig(DefaultUsageThreshold, DefaultTemperatureThreshold, DefaultWindowDays)

\* the [analysis] table of a TOML file: the keys it sets and their values
Toml(keys, usage_threshold, temperature_threshold, wdays) ==
  [keys |-> keys, usage_threshold_hours_per_day |-> usage_threshold,
   temperature_threshold_fahrenheit |-> temperature_threshold,
   window_days |-> wdays]

\* TOML files the run may find: a custom analysis with a window longer than
\* the recent window, and a table that sets only window_days
ConfigFiles ==
  { Toml({"usage_threshold_hours_per_day", "temperature_threshold_fahrenheit",
          "window_days"}, 10, 80, 8),
    Toml({"window_days"}, 0, 0, 0) }

\* analysis.get(key, default)
Get(analysis, key, default) ==
  IF key \in analysis.keys THEN analysis[key] ELSE default

\* load_config once the file is found; given: path is not None; exists: the
\* path (or, without one, DEFAULT_CONFIG_PATH) exists
load_config(given, exists, analysis) ==
  IF given /\ ~exists THEN Raised("FileNotFoundError")
  ELSE IF ~given /\ ~exists THEN Returned(DEFAULTS)
  ELSE Returned(AnalysisConfig(
         Get(analysis, "usage_threshold_hours_per_day",
             DEFAULTS.usage_threshold_hours_per_day),
         Get(analysis, "temperature_threshold_fahrenheit",
             DEFAULTS.temperature_threshold_fahrenheit),
         Get(analysis, "window_days", DEFAULTS.window_days)))

----------------------------------------------------------------------------
(* The devices' logs: the rows load_raw_records finds in the data directory. *)

\* utcoffsets of the exported timestamps: GMT-0500 and GMT-0600
CDT == -300

CST == -360

HotTemperature == 95

ColdTemperature == 80

\* days on which a device logs every hour, and how many of the first hours
\* of such a day are hot
RunDays == {8, 15}

HotCounts == {8, 16}

\* stray readings of the device that logs whole days: in the hour after the
\* last CDT hour of day 15, stamped CST and so still on day 15; early on day
\* 16; late on day 8
SingleStamps == {At(15, 23, 30, CST), At(16, 0, 15, CDT), At(8, 20, 45, CDT)}

\* the readings a device may log on their own: the other device logs only
\* early on day 16
Singles ==
  {RawRecord("alpha", ts, t) : ts \in SingleStamps,
                                t \in {ColdTemperature, HotTemperature}}
  \cup {RawRecord("beta", At(16, 0, 15, CDT), t) :
          t \in {ColdTemperature, HotTemperature}}

\* 24 hourly rows of one local day, the first hot hours at 95 and the rest at 80
FullDay(device_id, day, hot) ==
  Materialized([h \in 1..HoursPerDay |->
                  RawRecord(device_id, At(day, h - 1, 0, CDT),
                            IF h - 1 < hot THEN HotTemperature ELSE ColdTemperature)])

\* a device's log of one whole day; load_raw_records reads the files in
\* sorted order: the day logs by day, then the stray readings
LogFullDay(device_id, day, hot) ==
  /\ pc = "idle"
  /\ logged.last_day < day
  /\ logged.singles = 0
  /\ csv_rows' = csv_rows \o FullDay(device_id, day, hot)
  /\ logged' = [logged EXCEPT !.last_day = day]
  /\ UNCHANGED <<pc, args, raw_records, config, hourly_records, window_days,
                 usages, renormalized, exit_code, stdout>>

LogReading(record) ==
  /\ pc = "idle"
  /\ logged.singles < MaxSingles
  /\ csv_rows' = Append(csv_rows, record)
  /\ logged' = [logged EXCEPT !.singles = @ + 1]
  /\ UNCHANGED <<pc, args, raw_records, config, hourly_records, window_days,
                 usages, renormalized, exit_code, stdout>>

----------------------------------------------------------------------------
(* cli.py: main. *)

COLOR_AUTO == "auto"

COLOR_ALWAYS == "always"

COLOR_NEVER == "never"

Args(has_days, days, devices, has_config, color, verbose, json) ==
  [has_days |-> has_days, days |-> days, devices |-> devices,
   has_config |-> has_config, color |-> color, verbose |-> verbose,
   json |-> json]

\* command lines: none; --days 0; --days 1 --color never;
\* --days 8 --device alpha --color always --verbose; --days 16 --json;
\* --device gamma; --config PATH --color always
Argvs ==
  { Args(FALSE, 0, {}, FALSE, COLOR_AUTO, FALSE, FALSE),
    Args(TRUE, 0, {}, FALSE, COLOR_AUTO, FALSE, FALSE),
    Args(TRUE, 1, {}, FALSE, COLOR_NEVER, FALSE, FALSE),
    Args(TRUE, 8, {"alpha"}, FALSE, COLOR_ALWAYS, TRUE, FALSE),
    Args(TRUE, 16, {}, FALSE, COLOR_AUTO, FALSE, TRUE),
    Args(FALSE, 0, {"gamma"}, FALSE, COLOR_AUTO, FALSE, FALSE),
    Args(FALSE, 0, {}, TRUE, COLOR_ALWAYS, FALSE, FALSE) }

\* parser.error(...): argparse exits with status 2
ParserError ==
  /\ pc' = "exit"
  /\ exit_code' = 2

\* sys.exit(1), and the status of an uncaught exception
Exit1 ==
  /\ pc' = "exit"
  /\ exit_code' = 1

\* args.days is not None and args.days <= 0
DaysRejected(a) == a.has_days /\ a.days <= 0

\* lines 81-85
ParseArgs ==
  /\ pc = "idle"
  /\ \E a \in Argvs :
       /\ args' = a
       /\ IF DaysRejected(a) THEN ParserError
          ELSE pc' = "load_raw" /\ UNCHANGED exit_code
  /\ UNCHANGED <<csv_rows, raw_records, config, hourly_records, window_days,
                 usages, renormalized, logged, stdout>>

\* lines 87-95; a data directory that does not exist holds no rows
LoadRawRecords ==
  /\ pc = "load_raw"
  /\ \E dir_exists \in BOOLEAN :
       /\ ~dir_exists => csv_rows = <<>>
       /\ IF ~dir_exists THEN ParserError /\ UNCHANGED raw_records
          ELSE /\ raw_records' = csv_rows
               /\ IF csv_rows = <<>> THEN Exit1
                  ELSE pc' = "load_config" /\ UNCHANGED exit_code
  /\ UNCHANGED <<csv_rows, args, config, hourly_records, window_days, usages,
                 renormalized, logged, stdout>>

\* lines 97-101
LoadConfig ==
  /\ pc = "load_config"
  /\ \E exists \in BOOLEAN, analysis \in ConfigFiles :
       LET loaded == load_config(args.has_config, exists, analysis)
       IN IF loaded.raised # "None" THEN ParserError /\ UNCHANGED config
          ELSE /\ config' = loaded.value
               /\ pc' = "normalize"
               /\ UNCHANGED exit_code
  /\ UNCHANGED <<csv_rows, args, raw_records, hourly_records, window_days,
                 usages, renormalized, logged, stdout>>

\* [r for r in hourly_records if r.device_id in device_filter]
FilterDevices(records, device_filter) ==
  LET Wanted(r) == r.device_id \in device_filter
  IN SelectSeq(records, Wanted)

\* args.days if args.days is not None else config.window_days
WindowDays(a, c) == IF a.has_days THEN a.days ELSE c.window_days

\* lines 103-111
NormalizeAndFilter ==
  /\ pc = "normalize"
  /\ LET normalized == normalize_records(raw_records).value
         kept == IF args.devices # {} THEN FilterDevices(normalized, args.devices)
                 ELSE normalized
     IN /\ hourly_records' = kept
        /\ IF args.devices # {} /\ kept = <<>>
           THEN Exit1 /\ UNCHANGED window_days
           ELSE /\ window_days' = WindowDays(args, config)
                /\ pc' = "compute"
                /\ UNCHANGED exit_code
  /\ UNCHANGED <<csv_rows, args, raw_records, config, usages, renormalized, logged, stdout>>

\* lines 113-118; an exception of the core escapes main
ComputeUsage ==
  /\ pc = "compute"
  /\ usages' = compute_device_usage(hourly_records,
                                    config.usage_threshold_hours_per_day,
                                    config.temperature_threshold_fahrenheit,
                                    window_days)
  /\ IF usages'.raised # "None" THEN Exit1
     ELSE pc' = "render" /\ UNCHANGED exit_code
  /\ UNCHANGED <<csv_rows, args, raw_records, config, hourly_records,
                 window_days, renormalized, logged, stdout>>

----------------------------------------------------------------------------
(* cli.py: the text and JSON reports.  A line of text is the sequence of   *)
(* the fragments it is put together from; the line is their concatenation. *)

ANSI_GREEN == "\\033[32m"

ANSI_YELLOW == "\\033[33m"

ANSI_RED == "\\033[31m"

ANSI_RESET == "\\033[0m"

NEAR_THRESHOLD_BUFFER_HOURS == 2

\* float(hours) of an int, as a fraction
Float(n) == [num |-> n, den |-> 1]

\* a number in at least two digits (%d, %H, %M of strftime)
TwoDigits(n) == IF n < 10 THEN "0" \o ToString(n) ELSE ToString(n)

\* format(x, ".1f") of a non-negative fraction: the nearest tenth, a tie
\* going to the even tenth.  A float that is not a dyadic rational is never a
\* tie; the averages of the model are halves, for which the tenth is exact
OneDecimal(x) ==
  LET scaled == 10 * x.num
      q == scaled \div x.den
      r == scaled % x.den
      tenths == IF 2 * r > x.den \/ (2 * r = x.den /\ q % 2 = 1) THEN q + 1 ELSE q
  IN ToString(tenths \div 10) \o "." \o ToString(tenths % 10)

\* strftime("%a"): date.min, ordinal 1, is a Monday
WeekdayName(day) ==
  CASE (day - 1) % 7 = 0 -> "Mon"
    [] (day - 1) % 7 = 1 -> "Tue"
    [] (day - 1) % 7 = 2 -> "Wed"
    [] (day - 1) % 7 = 3 -> "Thu"
    [] (day - 1) % 7 = 4 -> "Fri"
    [] (day - 1) % 7 = 5 -> "Sat"
    [] (day - 1) % 7 = 6 -> "Sun"

\* day.strftime("%a %Y-%m-%d") of a day of the first month of year 1, where
\* the days of the model lie (the C library prints the year 1 as "1")
WeekdayText(day) == WeekdayName(day) \o " 1-01-" \o TwoDigits(day)

\* h.strftime("%H:%M"): the wall clock of the hour
HourText(h) ==
  TwoDigits((LocalMinutes(h) % MinutesPerDay) \div MinutesPerHour)
    \o ":" \o TwoDigits(LocalMinutes(h) % MinutesPerHour)

\* str(date) of a day of the first month of year 1
DateStr(day) == "0001-01-" \o TwoDigits(day)

\* the utcoffset as +HH:MM or -HH:MM
OffsetText(off) ==
  LET a == IF off < 0 THEN -off ELSE off
  IN (IF off < 0 THEN "-" ELSE "+")
       \o TwoDigits(a \div MinutesPerHour) \o ":" \o TwoDigits(a % MinutesPerHour)

\* str(datetime) of an aware datetime on a whole minute
DateTimeStr(h) ==
  DateStr(DateOf(h)) \o " " \o HourText(h) \o ":00" \o OffsetText(h.off)

\* ", ".join(texts), from index i
RECURSIVE JoinFrom(_, _)
JoinFrom(texts, i) ==
  IF i > Len(texts) THEN ""
  ELSE IF i = Len(texts) THEN texts[i]
  ELSE texts[i] \o ", " \o JoinFrom(texts, i + 1)

\* delta = hours - threshold, hours being a fraction
Delta(hours, threshold) ==
  [num |-> hours.num - threshold * hours.den, den |-> hours.den]

ColorFarAtBuffer(hours, threshold) ==
  IF Delta(hours, threshold).num >= 0 THEN ANSI_GREEN
  ELSE IF Delta(hours, threshold).num
            > -NEAR_THRESHOLD_BUFFER_HOURS * Delta(hours, threshold).den
       THEN ANSI_YELLOW
  ELSE ANSI_RED

_color_for_hours(hours, threshold) ==
  LET delta == Delta(hours, threshold)
  IN IF delta.num >= 0 THEN ANSI_GREEN
     ELSE IF delta.num >= -NEAR_THRESHOLD_BUFFER_HOURS * delta.den THEN ANSI_YELLOW
     ELSE ANSI_RED

_colorize_hours_text(text, hours, threshold, use_color) ==
  IF ~use_color THEN text
  ELSE _color_for_hours(hours, threshold) \o text \o ANSI_RESET

\* no_color: NO_COLOR is set in the environment; isatty: stdout is a terminal
_should_use_color(mode, no_color, isatty) ==
  IF mode = COLOR_ALWAYS THEN TRUE
  ELSE IF mode = COLOR_NEVER THEN FALSE
  ELSE IF no_color THEN FALSE
  ELSE isatty

\* "meets goal" if usage.threshold_met else "needs improvement"
Status(usage) == IF usage.threshold_met THEN "meets goal" ELSE "needs improvement"

\* avg_line
AvgLine(usage, usage_threshold, use_color) ==
  LET status == Status(usage)
      total_days == Len(usage.days)
      recent_days == Min(RecentDays, total_days)
      seven_day_text == OneDecimal(usage.seven_day_average_hours_per_day) \o " hr/day"
      overall_text == OneDecimal(usage.overall_average_hours_per_day) \o " hr/day"
      seven_day_fragment ==
        _colorize_hours_text(seven_day_text, usage.seven_day_average_hours_per_day,
                             usage_threshold, use_color)
      overall_fragment ==
        _colorize_hours_text(overall_text, usage.overall_average_hours_per_day,
                             usage_threshold, use_color)
  IN << "7-day avg: ",
        seven_day_fragment,
        " (based on " \o ToString(usage.complete_days_last_seven) \o "/"
          \o ToString(recent_days) \o " days)",
        " | overall avg (" \o ToString(total_days) \o " days): ",
        overall_fragment,
        " (based on " \o ToString(usage.complete_days_overall) \o "/"
          \o ToString(total_days) \o " days, " \o status \o ")" >>

\* the line of one day
DayLine(day, usage_threshold, use_color) ==
  LET weekday == WeekdayText(day.day)
      hours == day.hours_in_use
      suffix == IF hours = 1 THEN "hr" ELSE "hrs"
      note == IF ~day.is_complete
              THEN " (incomplete: " \o ToString(day.samples_present)
                     \o "/24 hours logged)"
              ELSE ""
      hours_text == ToString(hours) \o " " \o suffix
  IN << "  " \o weekday \o ": ",
        _colorize_hours_text(hours_text, Float(hours), usage_threshold, use_color),
        note >>

\* the line of the below-threshold hours of one day
BelowLine(day, temp_threshold) ==
  LET times == JoinFrom(Materialized([i \in 1..Len(day.below_threshold_hours) |->
                                        HourText(day.below_threshold_hours[i])]), 1)
  IN << "    below " \o OneDecimal(Float(temp_threshold)) \o "°F at: ", times >>

\* the lines of the days of one usage, from index i
RECURSIVE DayLinesFrom(_, _, _, _, _, _)
DayLinesFrom(days, i, verbose, temp_threshold, usage_threshold, use_color) ==
  IF i > Len(days) THEN <<>>
  ELSE << DayLine(days[i], usage_threshold, use_color) >>
         \o (IF verbose /\ days[i].below_threshold_hours # <<>>
             THEN << BelowLine(days[i], temp_threshold) >>
             ELSE <<>>)
         \o DayLinesFrom(days, i + 1, verbose, temp_threshold, usage_threshold,
                         use_color)

\* the lines the loop appends for the usages from index i
RECURSIVE LinesFrom(_, _, _, _, _, _)
LinesFrom(usage_list, i, verbose, temp_threshold, usage_threshold, use_color) ==
  IF i > Len(usage_list) THEN <<>>
  ELSE << <<"Device: " \o usage_list[i].device_id>>,
          AvgLine(usage_list[i], usage_threshold, use_color) >>
         \o DayLinesFrom(usage_list[i].days, 1, verbose, temp_threshold,
                         usage_threshold, use_color)
         \o << <<"">> >>
         \o LinesFrom(usage_list, i + 1, verbose, temp_threshold, usage_threshold,
                      use_color)

\* "\n".join(lines).strip(): the empty lines at the end go (no line of the
\* report starts or ends the text with other white space)
RECURSIVE Strip(_)
Strip(lines) ==
  IF lines # <<>> /\ lines[Len(lines)] = <<"">>
  THEN Strip(SubSeq(lines, 1, Len(lines) - 1))
  ELSE lines

_render_text(usage_list, verbose, temp_threshold, usage_threshold, use_color) ==
  Strip(LinesFrom(usage_list, 1, verbose, temp_threshold, usage_threshold, use_color))

\* asdict(day), the datetimes and the date as json.dumps(default=str) writes them
DayEntry(day) ==
  [day |-> DateStr(day.day),
   hours_in_use |-> day.hours_in_use,
   below_threshold_hours |->
     Materialized([i \in 1..Len(day.below_threshold_hours) |->
                     DateTimeStr(day.below_threshold_hours[i])]),
   samples_present |-> day.samples_present,
   is_complete |-> day.is_complete]

\* the JSON document, as the payload it serializes
_render_json(usage_list) ==
  Materialized(
    [u \in 1..Len(usage_list) |->
       [usage_list[u] EXCEPT
          !.days = Materialized([d \in 1..Len(usage_list[u].days) |->
                                   DayEntry(usage_list[u].days[d])])]])

----------------------------------------------------------------------------
(* cli.py: main, the report. *)

\* lines 120-131: the report is printed and main returns; NO_COLOR and the
\* kind of stream standard output is are the environment's
Render ==
  /\ pc = "render"
  /\ \E no_color \in BOOLEAN, isatty \in BOOLEAN :
       stdout' =
         IF args.json THEN << <<_render_json(usages.value)>> >>
         ELSE _render_text(usages.value, args.verbose,
                           config.temperature_threshold_fahrenheit,
                           config.usage_threshold_hours_per_day,
                           _should_use_color(args.color, no_color, isatty))
  /\ pc' = "exit"
  /\ exit_code' = 0
  /\ UNCHANGED <<csv_rows, args, raw_records, config, hourly_records,
                 window_days, usages, renormalized, logged>>

Init ==
  /\ csv_rows = <<>>
  /\ pc = "idle"
  /\ args = Args(FALSE, 0, {}, FALSE, COLOR_AUTO, FALSE, FALSE)
  /\ raw_records = <<>>
  /\ config = DEFAULTS
  /\ hourly_records = <<>>
  /\ window_days = DEFAULTS.window_days
  /\ usages = Returned(<<>>)
  /\ renormalized = Returned(<<>>)
  /\ exit_code = -1
  /\ logged = [last_day |-> 0, singles |-> 0]
  /\ stdout = <<>>

Next ==
  \/ \E d \in {"alpha"}, day \in RunDays, hot \in HotCounts : LogFullDay(d, day, hot)
  \/ \E record \in Singles : LogReading(record)
  \/ ParseArgs
  \/ LoadRawRecords
  \/ LoadConfig
  \/ NormalizeAndFilter
  \/ ComputeUsage
  \/ Render

Spec == Init /\ [][Next]_vars

----------------------------------------------------------------------------
(* The normalizer on its own, as the tests of metrics.py drive it. *)

\* utcoffset of a half-hour zone, GMT+0530
IST == 330

\* readings around the hour 05:00Z of day 16: two in it on different wall
\* clocks and calendar days, its own first instant, one in the hour before,
\* and one of a half-hour zone whose wall-clock hour straddles it
RowStamps ==
  {At(15, 23, 15, CST), At(16, 0, 30, CDT), At(15, 23, 0, CST),
   At(15, 23, 45, CDT), At(16, 10, 45, IST)}

Rows ==
  {RawRecord("alpha", ts, t) : ts \in RowStamps,
                                t \in {ColdTemperature, HotTemperature}}
  \cup {RawRecord("beta", ts, t) : ts \in {At(15, 23, 15, CST), At(16, 0, 30, CDT)},
                                    t \in {ColdTemperature, HotTemperature}}

ReadRow(row) ==
  /\ pc = "idle"
  /\ Len(csv_rows) < MaxRows
  /\ csv_rows' = Append(csv_rows, row)
  /\ UNCHANGED <<pc, args, raw_records, config, hourly_records, window_days,
                 usages, renormalized, exit_code, logged, stdout>>

\* normalized = normalize_records(records)
Normalize ==
  /\ pc = "idle"
  /\ raw_records' = csv_rows
  /\ hourly_records' = normalize_records(csv_rows).value
  /\ pc' = "normalized"
  /\ UNCHANGED <<csv_rows, args, config, window_days, usages, renormalized,
                 exit_code, logged, stdout>>

\* normalize_records(normalized): the normalizer on its own output
Renormalize ==
  /\ pc = "normalized"
  /\ renormalized' = normalize_records(hourly_records)
  /\ pc' = "renormalized"
  /\ UNCHANGED <<csv_rows, args, raw_records, config, hourly_records,
                 window_days, usages, exit_code, logged, stdout>>

\* each HourlyRecord as the RawRecord of the same device, instant and temperature
AsRawRecords(records) ==
  Materialized([i \in 1..Len(records) |->
                  RawRecord(records[i].device_id, records[i].hour,
                            records[i].temperature)])

\* the normalizer on its own output, handed over as RawRecords
RenormalizeAsRaw ==
  /\ pc = "normalized"
  /\ renormalized' = normalize_records(AsRawRecords(hourly_records))
  /\ pc' = "rewrapped"
  /\ UNCHANGED <<csv_rows, args, raw_records, config, hourly_records,
                 window_days, usages, exit_code, logged, stdout>>

NextNormalize ==
  \/ \E row \in Rows : ReadRow(row)
  \/ Normalize
  \/ Renormalize
  \/ RenormalizeAsRaw

SpecNormalize == Init /\ [][NextNormalize]_vars

----------------------------------------------------------------------------
(* The core on its own, as the tests of metrics.py drive it: the hourly     *)
(* records are handed to compute_device_usage in any order, and the call is *)
(* repeated on an input with one record more or one record less.            *)

\* utcoffset GMT-0800
PST == -480

AtThresholdTemperature == 90

\* hourly records a test may add: three hours of day 16 (one at the
\* temperature threshold, one below, one above), an hour of day 8, an hour of
\* day 15 on a wall clock three hours behind, which is later than the hours
\* of day 16; for the other device an hour of day 16 and an hour of day 3
HourlyPool ==
  { HourlyRecord("alpha", At(16, 0, 0, CDT), AtThresholdTemperature),
    HourlyRecord("alpha", At(16, 1, 0, CDT), ColdTemperature),
    HourlyRecord("alpha", At(16, 2, 0, CDT), HotTemperature),
    HourlyRecord("alpha", At(8, 20, 0, CDT), HotTemperature),
    HourlyRecord("alpha", At(15, 23, 0, PST), ColdTemperature),
    HourlyRecord("beta", At(16, 0, 0, CDT), HotTemperature),
    HourlyRecord("beta", At(3, 5, 0, CDT), ColdTemperature) }

\* the records a test starts from: none, or a whole day of one device
FirstRecords == {<<>>, normalize_records(FullDay("alpha", 15, 16)).value}

CoreWindows == {1, 7}

\* compute_device_usage(records, usage_threshold=16.0,
\* temperature_threshold=90.0, window_days=wdays)
CallCore(records, wdays) ==
  /\ pc = "idle"
  /\ hourly_records' = records
  /\ window_days' = wdays
  /\ usages' = compute_device_usage(records, DEFAULTS.usage_threshold_hours_per_day,
                                    DEFAULTS.temperature_threshold_fahrenheit, wdays)
  /\ pc' = "computed"
  /\ UNCHANGED <<csv_rows, args, raw_records, config, renormalized, exit_code,
                 logged, stdout>>

\* the call on the records with one of them taken away
Without(records, i) ==
  SubSeq(records, 1, i - 1) \o SubSeq(records, i + 1, Len(records))

\* the call repeated with one more record of a device-hour the input lacks
CallWithAdded(record) ==
  /\ pc = "computed"
  /\ logged.singles < MaxAdded
  /\ \A k \in 1..Len(hourly_records) :
       ~(hourly_records[k].device_id = record.device_id
         /\ hourly_records[k].hour.utc = record.hour.utc)
  /\ hourly_records' = Append(hourly_records, record)
  /\ usages' = compute_device_usage(hourly_records',
                                    config.usage_threshold_hours_per_day,
                                    config.temperature_threshold_fahrenheit,
                                    window_days)
  /\ logged' = [logged EXCEPT !.singles = @ + 1]
  /\ UNCHANGED <<csv_rows, pc, args, raw_records, config, window_days,
                 renormalized, exit_code, stdout>>

\* the call repeated without one of the added records
CallWithRemoved(i) ==
  /\ pc = "computed"
  /\ i \in (Len(hourly_records) - logged.singles + 1)..Len(hourly_records)
  /\ hourly_records' = Without(hourly_records, i)
  /\ usages' = compute_device_usage(hourly_records',
                                    config.usage_threshold_hours_per_day,
                                    config.temperature_threshold_fahrenheit,
                                    window_days)
  /\ logged' = [logged EXCEPT !.singles = @ - 1]
  /\ UNCHANGED <<csv_rows, pc, args, raw_records, config, window_days,
                 renormalized, exit_code, stdout>>

NextCompute ==
  \/ \E records \in FirstRecords, wdays \in CoreWindows : CallCore(records, wdays)
  \/ \E record \in HourlyPool : CallWithAdded(record)
  \/ \E i \in 1..(MaxAdded + 1) : CallWithRemoved(i)

SpecCompute == Init /\ [][NextCompute]_vars

----------------------------------------------------------------------------
(* Properties of normalize_records (checked under SpecNormalize). *)

Normalized == pc \in {"normalized", "renormalized", "rewrapped"}

\* h is the whole wall-clock hour that holds ts
InHour(h, ts) ==
  /\ h.utc <= ts.utc
  /\ ts.utc < h.utc + MinutesPerHour
  /\ (h.utc + ts.off) % MinutesPerHour = 0

\* the hourly record is that of the raw reading's (device, hour-floor) pair
SamePair(hourly, raw) ==
  hourly.device_id = raw.device_id /\ InHour(hourly.hour, raw.timestamp)

\* the raw readings of the pair of hourly_records[k]
Group(k) == {i \in 1..Len(raw_records) : SamePair(hourly_records[k], raw_records[i])}

\* C1: normalize_records returns exactly one record per (device, hour-floor)
\* pair of the input, none for a pair the input lacks, and each record's
\* temperature is the maximum of the readings of its pair.
C1_OnePerDeviceHourWithMax ==
  Normalized =>
    /\ \A i \in 1..Len(raw_records) :
         Cardinality({k \in 1..Len(hourly_records) :
                        SamePair(hourly_records[k], raw_records[i])}) = 1
    /\ \A k \in 1..Len(hourly_records) :
         /\ Group(k) # {}
         /\ \A i \in Group(k) :
              raw_records[i].temperature <= hourly_records[k].temperature
         /\ \E i \in Group(k) :
              raw_records[i].temperature = hourly_records[k].temperature

\* three readings of two pairs, the hotter reading of a pair coming first
C1_Witness ==
  /\ pc = "normalized"
  /\ Len(raw_records) = 3
  /\ Len(hourly_records) = 2
  /\ \E k \in 1..Len(hourly_records) :
       \E i, j \in Group(k) :
         /\ i < j
         /\ raw_records[i].temperature > raw_records[j].temperature

\* C7 as claimed: normalize_records applied to its own output succeeds and
\* returns that output unchanged.
C7_RenormalizeIsNoOp ==
  pc = "renormalized" => renormalized = Returned(hourly_records)

\* C7 as amended: applied to its own non-empty output normalize_records
\* raises AttributeError (a HourlyRecord has no timestamp); applied to that
\* output handed over as RawRecords it returns the output unchanged.
C7_RenormalizeRawIsNoOp ==
  /\ pc = "renormalized" /\ hourly_records # <<>> =>
       renormalized = Raised("AttributeError")
  /\ pc = "rewrapped" => renormalized = Returned(hourly_records)

\* the output of three readings with two pairs and a dropped reading went
\* through the normalizer again
C7_Witness ==
  /\ pc = "rewrapped"
  /\ Len(raw_records) = 3
  /\ Len(hourly_records) = 2
  /\ \E i \in 1..Len(raw_records) : raw_records[i].timestamp.utc % MinutesPerHour # 0

\* the reading of the pair of hourly_records[k] that the loop keeps: the
\* first of the hottest
Kept(k) ==
  CHOOSE i \in Group(k) :
    /\ \A j \in Group(k) : raw_records[j].temperature <= raw_records[i].temperature
    /\ \A j \in Group(k) :
         j < i => raw_records[j].temperature < raw_records[i].temperature

\* C8: of the readings of one device-hour the first of the hottest is
\* retained, with its own wall clock: a later reading replaces the stored
\* one only if it is strictly hotter.
C8_FirstOfEqualRetained ==
  Normalized =>
    \A k \in 1..Len(hourly_records) :
      /\ hourly_records[k].temperature = raw_records[Kept(k)].temperature
      /\ hourly_records[k].hour.off = raw_records[Kept(k)].timestamp.off

\* two readings of one device-hour, equally hot, on different wall clocks
C8_Witness ==
  /\ pc = "normalized"
  /\ \E k \in 1..Len(hourly_records) :
       \E i, j \in Group(k) :
         /\ i < j
         /\ raw_records[i].temperature = raw_records[j].temperature
         /\ raw_records[i].timestamp.off # raw_records[j].timestamp.off
         /\ hourly_records[k].hour.off = raw_records[i].timestamp.off

----------------------------------------------------------------------------
(* Properties of compute_device_usage and of main (checked under Spec). *)

\* compute_device_usage has returned
Computed == pc = "render" \/ (pc = "exit" /\ exit_code = 0)

Summaries == usages.value

DaysOf(u) == Summaries[u].days

\* C2: in every emitted DailyUsage hours_in_use + len(below_threshold_hours)
\* is samples_present, and is_complete is true exactly when samples_present
\* is 24.
C2_SamplesAddUp ==
  \A u \in 1..Len(Summaries) :
    \A d \in 1..Len(DaysOf(u)) :
      /\ DaysOf(u)[d].hours_in_use + Len(DaysOf(u)[d].below_threshold_hours)
           = DaysOf(u)[d].samples_present
      /\ DaysOf(u)[d].is_complete <=> DaysOf(u)[d].samples_present = 24

\* a summary with a complete day of hot and cold hours and a partly logged day
C2_Witness ==
  /\ Computed
  /\ \E u \in 1..Len(Summaries) :
       \E d, e \in 1..Len(DaysOf(u)) :
         /\ DaysOf(u)[d].is_complete
         /\ DaysOf(u)[d].hours_in_use > 0
         /\ DaysOf(u)[d].below_threshold_hours # <<>>
         /\ ~DaysOf(u)[e].is_complete
         /\ DaysOf(u)[e].samples_present > 0

\* the most recent hourly reading of the device
Latest(device_id) ==
  CHOOSE k \in 1..Len(hourly_records) :
    /\ hourly_records[k].device_id = device_id
    /\ \A j \in 1..Len(hourly_records) :
         hourly_records[j].device_id = device_id =>
           hourly_records[j].hour.utc <= hourly_records[k].hour.utc

\* C3: for window_days >= 1 every device with a reading has a summary whose
\* days are exactly window_days consecutive calendar days, oldest first,
\* ending on the calendar day of the device's most recent hourly reading.
C3_WindowEndsAtLatestDay ==
  Computed /\ window_days >= 1 =>
    /\ \A k \in 1..Len(hourly_records) :
         \E u \in 1..Len(Summaries) :
           Summaries[u].device_id = hourly_records[k].device_id
    /\ \A u \in 1..Len(Summaries) :
         /\ Len(DaysOf(u)) = window_days
         /\ \A d \in 1..(Len(DaysOf(u)) - 1) :
              DaysOf(u)[d + 1].day = DaysOf(u)[d].day + 1
         /\ DaysOf(u)[Len(DaysOf(u))].day
              = DateOf(hourly_records[Latest(Summaries[u].device_id)].hour)

\* an eight-day window over sparse data: days without any reading around
\* days with some
C3_Witness ==
  /\ Computed
  /\ window_days = 8
  /\ \E u \in 1..Len(Summaries) :
       /\ DaysOf(u)[1].samples_present > 0
       /\ DaysOf(u)[2].samples_present = 0
       /\ DaysOf(u)[8].samples_present > 0

\* the days of the summary's window, and the last seven of them
AllDays(u) == 1..Len(DaysOf(u))

LastSeven(u) == {d \in AllDays(u) : d > Len(DaysOf(u)) - 7}

CompleteIn(u, S) == {d \in S : DaysOf(u)[d].is_complete}

RECURSIVE SumOfHours(_, _)
SumOfHours(u, S) ==
  IF S = {} THEN 0
  ELSE LET d == CHOOSE x \in S : TRUE
       IN DaysOf(u)[d].hours_in_use + SumOfHours(u, S \ {d})

\* average is the mean of hours_in_use over the days S, 0 when S is empty
IsMeanOver(average, u, S) ==
  /\ average.den > 0
  /\ IF S = {} THEN average.num = 0
     ELSE average.num * Cardinality(S) = SumOfHours(u, S) * average.den

\* C4: each average is taken over complete days only: the overall one over
\* the complete days of the window, the seven-day one over the complete days
\* among the last min(7, window_days) days, each divided by its count of
\* complete days, and 0 when that count is 0.
C4_AveragesOverCompleteDays ==
  Computed =>
    \A u \in 1..Len(Summaries) :
      /\ Summaries[u].complete_days_overall
           = Cardinality(CompleteIn(u, AllDays(u)))
      /\ Summaries[u].complete_days_last_seven
           = Cardinality(CompleteIn(u, LastSeven(u)))
      /\ IsMeanOver(Summaries[u].overall_average_hours_per_day, u,
                    CompleteIn(u, AllDays(u)))
      /\ IsMeanOver(Summaries[u].seven_day_average_hours_per_day, u,
                    CompleteIn(u, LastSeven(u)))

\* a window with a complete day older than its last seven days and an
\* incomplete day that has hours in use
C4_Witness ==
  /\ Computed
  /\ \E u \in 1..Len(Summaries) :
       /\ Summaries[u].complete_days_overall > Summaries[u].complete_days_last_seven
       /\ Summaries[u].overall_average_hours_per_day.num > 0
       /\ \E d \in LastSeven(u) :
            ~DaysOf(u)[d].is_complete /\ DaysOf(u)[d].hours_in_use > 0

\* the goal is met over the days S: one of them is complete and the mean of
\* hours_in_use over the complete ones reaches the usage threshold
GoalMetOver(u, S) ==
  /\ CompleteIn(u, S) # {}
  /\ SumOfHours(u, CompleteIn(u, S))
       >= config.usage_threshold_hours_per_day * Cardinality(CompleteIn(u, S))

\* C5 as claimed: threshold_met is true exactly when the window has a
\* complete day and the average over the window's complete days reaches
\* usage_threshold.
C5_GoalOverWholeWindow ==
  Computed /\ window_days >= 1 =>
    \A u \in 1..Len(Summaries) :
      Summaries[u].threshold_met <=> GoalMetOver(u, AllDays(u))

\* C5 as amended: threshold_met is true exactly when the last
\* min(7, window_days) days of the window hold a complete day and the average
\* over the complete days among them reaches usage_threshold; it is false
\* whenever the window has no complete day.
C5_GoalOverLastSevenDays ==
  Computed /\ window_days >= 1 =>
    \A u \in 1..Len(Summaries) :
      /\ Summaries[u].threshold_met <=> GoalMetOver(u, LastSeven(u))
      /\ CompleteIn(u, AllDays(u)) = {} => ~Summaries[u].threshold_met

\* a window longer than seven days whose only complete day, older than the
\* last seven, reaches the threshold
C5_Witness ==
  /\ Computed
  /\ window_days > 7
  /\ \E u \in 1..Len(Summaries) :
       /\ GoalMetOver(u, AllDays(u))
       /\ ~Summaries[u].threshold_met

\* C6: samples_present of every emitted DailyUsage is between 0 and 24.
C6_AtMost24Samples ==
  \A u \in 1..Len(Summaries) :
    \A d \in 1..Len(DaysOf(u)) :
      DaysOf(u)[d].samples_present \in 0..24

\* C9: compute_device_usage raises no error, whatever the readings, the
\* thresholds and window_days.
C9_CoreRaisesNothing == usages.raised = "None"

\* the part of C9 about window_days <= 0: every device with readings gets a
\* summary with no days, zero averages and counts, and threshold_met false
C9_NonPositiveWindowDefined ==
  pc = "render" /\ window_days <= 0 =>
    /\ \A k \in 1..Len(hourly_records) :
         \E u \in 1..Len(Summaries) :
           Summaries[u].device_id = hourly_records[k].device_id
    /\ \A u \in 1..Len(Summaries) :
         /\ DaysOf(u) = <<>>
         /\ Summaries[u].seven_day_average_hours_per_day.num = 0
         /\ Summaries[u].overall_average_hours_per_day.num = 0
         /\ Summaries[u].complete_days_last_seven = 0
         /\ Summaries[u].complete_days_overall = 0
         /\ ~Summaries[u].threshold_met

\* C10: main calls compute_device_usage only with window_days >= 1.
C10_CoreCalledWithPositiveWindow == pc = "compute" => window_days >= 1

----------------------------------------------------------------------------
(* Properties of the text report (checked under Spec). *)

\* main has printed the text report
Reported == pc = "exit" /\ exit_code = 0 /\ ~args.json

\* the line that opens the block of the u-th summary, and the lines of the block
BlockStart(u) ==
  CHOOSE i \in 1..Len(stdout) : stdout[i] = <<"Device: " \o Summaries[u].device_id>>

BlockEnd(u) ==
  IF u < Len(Summaries) THEN BlockStart(u + 1) - 1 ELSE Len(stdout)

\* the summary line of the u-th device
AvgLineOf(u) == stdout[BlockStart(u) + 1]

\* the line of the d-th day of the u-th device
DayLineOf(u, d) ==
  stdout[CHOOSE i \in (BlockStart(u) + 2)..BlockEnd(u) :
           stdout[i][1] = "  " \o WeekdayText(DaysOf(u)[d].day) \o ": "]

\* the texts of the hours values of the report
SevenDayText(u) ==
  OneDecimal(Summaries[u].seven_day_average_hours_per_day) \o " hr/day"

OverallText(u) ==
  OneDecimal(Summaries[u].overall_average_hours_per_day) \o " hr/day"

HoursText(u, d) ==
  ToString(DaysOf(u)[d].hours_in_use)
    \o (IF DaysOf(u)[d].hours_in_use = 1 THEN " hr" ELSE " hrs")

\* the report is coloured
Colored == Reported /\ AvgLineOf(1)[2] # SevenDayText(1)

\* the three cases of an hours value against the usage threshold
Met(hours, threshold) == hours.num >= threshold * hours.den

Near(hours, threshold) ==
  /\ hours.num >= (threshold - 2) * hours.den
  /\ hours.num < threshold * hours.den

Far(hours, threshold) == hours.num < (threshold - 2) * hours.den

\* the fragment shows the text in the colour of the case of hours, and in
\* no other colour
ColoredByCase(fragment, text, hours, threshold) ==
  /\ fragment = ANSI_GREEN \o text \o ANSI_RESET <=> Met(hours, threshold)
  /\ fragment = ANSI_YELLOW \o text \o ANSI_RESET <=> Near(hours, threshold)
  /\ fragment = ANSI_RED \o text \o ANSI_RESET <=> Far(hours, threshold)
  /\ Cardinality({c \in {"met", "near", "far"} :
                    \/ c = "met" /\ Met(hours, threshold)
                    \/ c = "near" /\ Near(hours, threshold)
                    \/ c = "far" /\ Far(hours, threshold)}) = 1

\* C11: every hours value of a coloured report (the two averages and each
\* day's hours in use) is green iff hours >= threshold, yellow iff
\* threshold - 2 <= hours < threshold, red iff hours < threshold - 2; exactly
\* one case applies, and a value exactly 2 under the threshold is yellow.
C11_ColourByDistanceToThreshold ==
  Colored =>
    \A u \in 1..Len(Summaries) :
      /\ ColoredByCase(AvgLineOf(u)[2], SevenDayText(u),
                       Summaries[u].seven_day_average_hours_per_day,
                       config.usage_threshold_hours_per_day)
      /\ ColoredByCase(AvgLineOf(u)[5], OverallText(u),
                       Summaries[u].overall_average_hours_per_day,
                       config.usage_threshold_hours_per_day)
      /\ \A d \in 1..Len(DaysOf(u)) :
           ColoredByCase(DayLineOf(u, d)[2], HoursText(u, d),
                         Float(DaysOf(u)[d].hours_in_use),
                         config.usage_threshold_hours_per_day)

\* a coloured report with a day exactly 2 hours under the threshold shown
\* yellow, a day at or over the threshold and a day far under it
C11_Witness ==
  /\ Colored
  /\ \E u \in 1..Len(Summaries) :
       \E a, c, e \in 1..Len(DaysOf(u)) :
         /\ DaysOf(u)[a].hours_in_use = config.usage_threshold_hours_per_day - 2
         /\ DayLineOf(u, a)[2] = ANSI_YELLOW \o HoursText(u, a) \o ANSI_RESET
         /\ DaysOf(u)[c].hours_in_use >= config.usage_threshold_hours_per_day
         /\ DaysOf(u)[e].hours_in_use < config.usage_threshold_hours_per_day - 2

\* the parenthetical the summary line is claimed to carry after the 7-day
\* average: the counts of the recent window and the goal status
SevenDayParenthetical(u) ==
  " (based on " \o ToString(Summaries[u].complete_days_last_seven) \o "/"
    \o ToString(Min(7, Len(DaysOf(u)))) \o " days, "
    \o (IF Summaries[u].threshold_met THEN "meets goal" ELSE "needs improvement")
    \o ")"

\* C12: each device's summary line reads '7-day avg: <avg> hr/day (based on
\* <complete>/<days> days, <status>)': the goal status stands inside the
\* parenthetical that directly follows the 7-day average, 'meets goal' when
\* threshold_met is true and 'needs improvement' otherwise.
C12_StatusFollowsSevenDayAverage ==
  Reported =>
    \A u \in 1..Len(Summaries) :
      /\ AvgLineOf(u)[1] = "7-day avg: "
      /\ AvgLineOf(u)[2] \in {SevenDayText(u)}
                               \cup {c \o SevenDayText(u) \o ANSI_RESET :
                                       c \in {ANSI_GREEN, ANSI_YELLOW, ANSI_RED}}
      /\ AvgLineOf(u)[3] = SevenDayParenthetical(u)

----------------------------------------------------------------------------
(* Properties of the core on its own (checked under SpecCompute). *)

\* the core was called and returned
Returns(outcome) == outcome.raised = "None"

CoreReturned == pc = "computed" /\ Returns(usages)

\* the hourly records of the u-th summary's device on the day of its d-th entry
ReadingsOn(u, d) ==
  {k \in 1..Len(hourly_records) :
     /\ hourly_records[k].device_id = Summaries[u].device_id
     /\ DateOf(hourly_records[k].hour) = DaysOf(u)[d].day}

\* C13: a reading is an in-use hour of its day only when its temperature is
\* strictly greater than temperature_threshold; a reading at or below the
\* threshold is listed in the day's below_threshold_hours instead; and every
\* emitted below_threshold_hours is sorted ascending, whatever the order of
\* the input.
C13_StrictlyAboveIsInUse ==
  CoreReturned =>
    \A u \in 1..Len(Summaries) :
      \A d \in 1..Len(DaysOf(u)) :
        LET below == DaysOf(u)[d].below_threshold_hours
            above == {k \in ReadingsOn(u, d) :
                        hourly_records[k].temperature
                          > config.temperature_threshold_fahrenheit}
        IN /\ DaysOf(u)[d].hours_in_use = Cardinality(above)
           /\ Len(below) = Cardinality(ReadingsOn(u, d) \ above)
           /\ {below[i] : i \in 1..Len(below)}
                = {hourly_records[k].hour : k \in ReadingsOn(u, d) \ above}
           /\ \A i \in 1..(Len(below) - 1) : below[i].utc <= below[i + 1].utc

\* a day whose readings came in descending order: one at the threshold and
\* one below it, both listed, and one above it, in use
C13_Witness ==
  /\ CoreReturned
  /\ \E u \in 1..Len(Summaries) :
       \E d \in 1..Len(DaysOf(u)) :
         /\ DaysOf(u)[d].hours_in_use = 1
         /\ Len(DaysOf(u)[d].below_threshold_hours) = 2
         /\ \E j, k \in ReadingsOn(u, d) :
              /\ j < k
              /\ hourly_records[j].hour.utc > hourly_records[k].hour.utc
              /\ hourly_records[j].temperature
                   < config.temperature_threshold_fahrenheit
              /\ hourly_records[k].temperature
                   = config.temperature_threshold_fahrenheit

\* the devices that have a reading among the records
DevicesOf(records) == {records[k].device_id : k \in 1..Len(records)}

\* the outcome holds a summary of the device
HasSummary(outcome, device_id) ==
  /\ Returns(outcome)
  /\ \E u \in 1..Len(outcome.value) : outcome.value[u].device_id = device_id

SummaryOf(outcome, device_id) ==
  outcome.value[CHOOSE u \in 1..Len(outcome.value) :
                  outcome.value[u].device_id = device_id]

\* one summary for each device with a reading, in the order of the device ids
OnePerDeviceOrdered(outcome, records) ==
  /\ Returns(outcome)
  /\ Len(outcome.value) = Cardinality(DevicesOf(records))
  /\ \A d \in DevicesOf(records) : HasSummary(outcome, d)
  /\ \A u, v \in 1..Len(outcome.value) :
       u < v => DeviceRank(outcome.value[u].device_id)
                  < DeviceRank(outcome.value[v].device_id)

\* the devices whose own readings the step from one call to the next leaves
\* as they are
Untouched ==
  {d \in DevicesOf(hourly_records) :
     PerDevice(hourly_records', d) = PerDevice(hourly_records, d)}

\* C14: compute_device_usage returns exactly one summary per device with a
\* reading, ordered by device id, and the summary of a device stays the same
\* when readings of other devices are added to or removed from the input.
C14_DevicesIndependent ==
  [][pc' = "computed" =>
       /\ OnePerDeviceOrdered(usages', hourly_records')
       /\ pc = "computed" =>
            \A d \in Untouched :
              /\ HasSummary(usages, d)
              /\ HasSummary(usages', d)
              /\ SummaryOf(usages', d) = SummaryOf(usages, d)]_vars

\* the part of C14 that holds: as long as both calls return, each returns one
\* summary per device in the order of the ids, and the summary of a device
\* whose readings are untouched is the same in both
C14_IndependentWhenReturned ==
  [][pc' = "computed" /\ Returns(usages') =>
       /\ OnePerDeviceOrdered(usages', hourly_records')
       /\ pc = "computed" /\ Returns(usages) =>
            \A d \in Untouched :
              SummaryOf(usages', d) = SummaryOf(usages, d)]_vars

\* the record's calendar day is earlier than the first day of the window the
\* outcome emits for the record's device
BeforeWindow(outcome, record) ==
  /\ HasSummary(outcome, record.device_id)
  /\ SummaryOf(outcome, record.device_id).days # <<>>
  /\ DateOf(record.hour) < SummaryOf(outcome, record.device_id).days[1].day

\* the device's summary (days, both averages, both counts of complete days,
\* threshold_met) is the same before and after the step
SameSummary(device_id) ==
  /\ HasSummary(usages, device_id)
  /\ HasSummary(usages', device_id)
  /\ SummaryOf(usages', device_id) = SummaryOf(usages, device_id)

\* C15: a reading whose calendar day is earlier than the first day of the
\* window emitted for its device has no effect on that device's summary:
\* the call without the reading and the call with it give the same days,
\* averages, counts of complete days and threshold_met.
C15_OutsideWindowNoEffect ==
  [][pc = "computed" /\ pc' = "computed" =>
       /\ \A i \in 1..Len(hourly_records) :
            /\ hourly_records' = Without(hourly_records, i)
            /\ BeforeWindow(usages, hourly_records[i])
            => SameSummary(hourly_records[i].device_id)
       /\ \A i \in 1..Len(hourly_records') :
            /\ hourly_records = Without(hourly_records', i)
            /\ BeforeWindow(usages', hourly_records'[i])
            => SameSummary(hourly_records'[i].device_id)]_vars

\* the call returned for an input with an added reading that lies before
\* the window of its device, a window that holds a complete day and meets
\* the goal
C15_Witness ==
  /\ CoreReturned
  /\ \E k \in (Len(hourly_records) - logged.singles + 1)..Len(hourly_records) :
       /\ BeforeWindow(usages, hourly_records[k])
       /\ hourly_records[k].temperature > config.temperature_threshold_fahrenheit
       /\ SummaryOf(usages, hourly_records[k].device_id).complete_days_overall > 0
       /\ SummaryOf(usages, hourly_records[k].device_id).threshold_met

====
